---- MODULE Spec2Model ----
\* Model of pylint/checkers/refactoring/implicit_booleaness_checker.py:
\* the ImplicitBooleanessChecker handlers visit_call and visit_unaryop, run by
\* the AST walker over one syntax tree, with the astroid inference of the
\* len() argument as a nondeterministic input.
EXTENDS Naturals, Sequences, FiniteSets

VARIABLES tree, arg, pos, msgs, inferred, fault

vars == <<tree, arg, pos, msgs, inferred, fault>>

\* ---------------------------------------------------------------- bounds

\* Largest number of expression nodes between the statement and the call.
MaxNest == 2

\* Largest number of ancestors of an inferred class.
MaxAncestors == 1

\* ------------------------------------------------------------ syntax tree
\* The handlers read a node, its chain of parents and the call's first
\* argument, so a tree is the path from a statement (node 1) down to a call
\* (the last node): node n's parent is node n - 1, and node 0 is the module.
\* Each node records in `slot` which of its fields holds the next node of the
\* path, and in `attr` the operator of a UnaryOp / BoolOp or the callee of a
\* Call ("len", "bool", "f": a Name; ".len": an Attribute such as obj.len).

Node(k, s, a) == [kind |-> k, slot |-> s, attr |-> a]

Stmts ==
    { Node("If", "test", ""), Node("While", "test", ""),
      Node("Assert", "test", ""), Node("Assert", "fail", ""),
      Node("Assign", "value", "") }

Mids ==
    { Node("BoolOp", s, o) : s \in {"values[0]", "values[1]"}, o \in {"and", "or"} }
    \cup { Node("UnaryOp", "operand", o) : o \in {"not", "-"} }
    \cup { Node("IfExp", s, "") : s \in {"test", "body"} }
    \cup { Node("Call", "args", f) : f \in {"bool", "f"} }

Leaves == { Node("Call", "args", f) : f \in {"len", ".len"} }

MidSeqs(k) == UNION { [1..j -> Mids] : j \in 0..k }

Trees(k) == { <<s>> \o m \o <<l>> : s \in Stmts, m \in MidSeqs(k), l \in Leaves }

\* node.parent
Parent(n) == n - 1

\* node.operand of a UnaryOp, the next node of the path
Operand(n) == n + 1

\* type(node): node 0 stands for the enclosing Module
Kind(t, n) == IF n = 0 THEN "Module" ELSE t[n].kind

\* ---------------------------------------------------- inference outcomes
\* next(len_arg.infer()) either raises InferenceError (err) or returns an
\* object with a name, whose ancestors() either raises TypeError or yields
\* classes with the names `ancestors`, and whose getattr("__bool__") either
\* succeeds (hasBool) or raises AttributeInferenceError.

Names == {"range", "str", "tuple", "list", "set", "int", "object"}

InferenceError ==
    [err |-> TRUE, name |-> "", ancestors |-> <<>>, typeError |-> FALSE, hasBool |-> FALSE]

Instances(k) ==
    { [err |-> FALSE, name |-> nm, ancestors |-> an, typeError |-> FALSE, hasBool |-> hb] :
        nm \in Names, an \in UNION { [1..j -> Names] : j \in 0..k }, hb \in BOOLEAN }
    \cup
    { [err |-> FALSE, name |-> nm, ancestors |-> <<>>, typeError |-> TRUE, hasBool |-> hb] :
        nm \in Names, hb \in BOOLEAN }

Infs(k) == {InferenceError} \cup Instances(k)

generator_or_comprehension == {"ListComp", "SetComp", "DictComp", "GeneratorExp"}

NoArg == [kind |-> "none", inf |-> InferenceError]

\* node.args of the call: empty, a comprehension / generator, or a Name,
\* each with what inferring it would give.
WideArgs ==
    {NoArg}
    \cup { [kind |-> c, inf |-> i] : c \in generator_or_comprehension,
             i \in {InferenceError} \cup { x \in Instances(0) : x.name = "list" /\ ~x.typeError /\ ~x.hasBool } }
    \cup { [kind |-> "Name", inf |-> i] : i \in Infs(MaxAncestors) }

DeepArgs ==
    { a \in WideArgs :
        \/ a.kind = "none"
        \/ a.kind \in generator_or_comprehension /\ a.inf.err
        \/ /\ a.kind = "Name"
           /\ a.inf.ancestors = <<>> }

\* -------------------------------------------------- helpers of the checker

\* utils.is_call_of_name(node, name), defined in pylint/checkers/utils.py:
\* node is a Call whose callee is the Name `name`.
is_call_of_name(t, n, name) ==
    /\ Kind(t, n) = "Call"
    /\ t[n].attr = name

\* Faulty variant of out_of_boolops: an `if` in place of the `while`.
ascend_single(t, parent) ==
    IF Kind(t, parent) = "BoolOp" THEN Parent(parent) ELSE parent

\* Faulty variant of out_of_boolops: the loop also climbs through UnaryOp.
RECURSIVE ascend_unary(_, _)
ascend_unary(t, parent) ==
    IF Kind(t, parent) \in {"BoolOp", "UnaryOp"} THEN ascend_unary(t, Parent(parent)) ELSE parent

\* parent = node.parent
\* while isinstance(parent, nodes.BoolOp): parent = parent.parent
RECURSIVE out_of_boolops(_, _)
out_of_boolops(t, parent) ==
    IF Kind(t, parent) = "BoolOp" THEN out_of_boolops(t, Parent(parent)) ELSE parent

\* utils.is_test_condition(node, parent), defined in pylint/checkers/utils.py;
\* taken from the specification's section 4.1: parent is an If, While, IfExp
\* or Assert node and node lies in its test child.
is_test_condition(t, n, parent) ==
    /\ Kind(t, parent) \in {"If", "While", "IfExp", "Assert"}
    /\ parent < n
    /\ t[parent].slot = "test"

SeqRange(s) == { s[i] : i \in DOMAIN s }

\* base_classes_of_node(instance)
base_classes_of_node(instance) ==
    IF instance.typeError
    THEN <<instance.name>>
    ELSE <<instance.name>> \o instance.ancestors

\* Faulty variant of instance_has_bool: the `return True` is lost.
instance_has_bool_never(class_def) == FALSE

\* instance_has_bool(class_def): getattr("__bool__") succeeds

instance_has_bool(class_def) == class_def.hasBool

\* affected_by_pep8 = any(t in mother_classes for t in ("str", "tuple", "list", "set"))
affected_by_pep8(mother_classes) ==
    \E x \in {"str", "tuple", "list", "set"} : x \in SeqRange(mother_classes)

\* Faulty variant of instance_is_flagged: __bool__ also suppresses `range`.
flag_range_unless_bool(instance) ==
    LET mother_classes == base_classes_of_node(instance) IN
    ("range" \in SeqRange(mother_classes) \/ affected_by_pep8(mother_classes))
        /\ ~instance_has_bool(instance)

\* Faulty variant of instance_is_flagged: affected_by_pep8 is dropped.
flag_without_pep8(instance) ==
    LET mother_classes == base_classes_of_node(instance) IN
    "range" \in SeqRange(mother_classes) \/ ~instance_has_bool(instance)

\* the condition guarding the final add_message of visit_call:
\* "range" in mother_classes or (affected_by_pep8 and not instance_has_bool)
instance_is_flagged(instance) ==
    LET mother_classes == base_classes_of_node(instance) IN
    \/ "range" \in SeqRange(mother_classes)
    \/ affected_by_pep8(mother_classes) /\ ~instance_has_bool(instance)

\* Faulty variant of arg_outcome: infer is called before the comprehension test.
arg_outcome_infer_first(a) ==
    IF a.kind = "none" THEN "IndexError"
    ELSE IF a.inf.err THEN "infer_silent"
    ELSE IF a.kind \in generator_or_comprehension THEN "infer_message"
    ELSE IF instance_is_flagged(a.inf) THEN "infer_message"
    ELSE "infer_silent"

\* Faulty variant of arg_outcome: InferenceError is not caught.
arg_outcome_uncaught(a) ==
    IF a.kind = "none" THEN "IndexError"
    ELSE IF a.kind \in generator_or_comprehension THEN "message"
    ELSE IF a.inf.err THEN "InferenceError"
    ELSE IF instance_is_flagged(a.inf) THEN "infer_message"
    ELSE "infer_silent"

\* visit_call from `len_arg = node.args[0]` on: what the handler does with the
\* argument a. "message" / "silent": returns with / without add_message;
\* the infer_ prefix: len_arg.infer() was called; "IndexError": node.args is
\* empty and the subscript raises.
arg_outcome(a) ==
    IF a.kind = "none" THEN "IndexError"
    ELSE IF a.kind \in generator_or_comprehension THEN "message"
    ELSE IF a.inf.err THEN "infer_silent"
    ELSE IF instance_is_flagged(a.inf) THEN "infer_message"
    ELSE "infer_silent"

\* Faulty variant of call_outcome: the comprehension test comes before the
\* test-condition guard.
call_outcome_unguarded(t, a, n) ==
    IF ~is_call_of_name(t, n, "len") THEN "silent"
    ELSE IF a.kind \in generator_or_comprehension THEN "message"
    ELSE IF ~is_test_condition(t, n, out_of_boolops(t, Parent(n))) THEN "silent"
    ELSE arg_outcome(a)

\* visit_call(node) as a whole, for node n of tree t whose args are a
call_outcome(t, a, n) ==
    IF ~is_call_of_name(t, n, "len") THEN "silent"
    ELSE IF ~is_test_condition(t, n, out_of_boolops(t, Parent(n))) THEN "silent"
    ELSE arg_outcome(a)

\* Faulty variant of is_not_len: the negation must itself be a test condition.
not_len_in_condition(t, n) ==
    /\ Kind(t, n) = "UnaryOp"
    /\ t[n].attr = "not"
    /\ is_call_of_name(t, Operand(n), "len")
    /\ is_test_condition(t, n, out_of_boolops(t, Parent(n)))

\* the condition of visit_unaryop
is_not_len(t, n) ==
    /\ Kind(t, n) = "UnaryOp"
    /\ t[n].attr = "not"
    /\ is_call_of_name(t, Operand(n), "len")

\* ------------------------------------------------------------ the walker

Emits(o) == o \in {"message", "infer_message"}
Infers(o) == o \in {"infer_message", "infer_silent", "InferenceError"}
Raises(o) == o \in {"IndexError", "InferenceError"}

Init ==
    /\ \/ tree \in Trees(MaxNest) /\ arg \in DeepArgs
       \/ tree \in Trees(1) /\ arg \in WideArgs
    /\ pos = 1
    /\ msgs = [n \in 1..Len(tree) |-> 0]
    /\ inferred = {}
    /\ fault = "none"

\* The walker reaches a Call node and runs visit_call on it.
visit_call ==
    /\ fault = "none"
    /\ pos <= Len(tree)
    /\ Kind(tree, pos) = "Call"
    /\ LET o == call_outcome(tree, arg, pos) IN
        /\ msgs' = IF Emits(o) THEN [msgs EXCEPT ![pos] = @ + 1] ELSE msgs
        /\ inferred' = IF Infers(o) THEN inferred \cup {pos} ELSE inferred
        /\ fault' = IF Raises(o) THEN o ELSE fault
    /\ pos' = pos + 1
    /\ UNCHANGED <<tree, arg>>

\* The walker reaches a UnaryOp node and runs visit_unaryop on it.
visit_unaryop ==
    /\ fault = "none"
    /\ pos <= Len(tree)
    /\ Kind(tree, pos) = "UnaryOp"
    /\ msgs' = IF is_not_len(tree, pos) THEN [msgs EXCEPT ![pos] = @ + 1] ELSE msgs
    /\ pos' = pos + 1
    /\ UNCHANGED <<tree, arg, inferred, fault>>

\* The walker reaches a node of a kind the checker has no handler for.
visit_other ==
    /\ fault = "none"
    /\ pos <= Len(tree)
    /\ Kind(tree, pos) \notin {"Call", "UnaryOp"}
    /\ pos' = pos + 1
    /\ UNCHANGED <<tree, arg, msgs, inferred, fault>>

Next == visit_call \/ visit_unaryop \/ visit_other

Spec == Init /\ [][Next]_vars

\* ------------------------------------------------------------- properties

\* node n has been handed to its handler
Visited(n) == n < pos

IsLenCall(n) == tree[n].kind = "Call" /\ tree[n].attr = "len"

IsNegation(n) == tree[n].kind = "UnaryOp" /\ tree[n].attr = "not"

ConditionKinds == {"If", "While", "IfExp", "Assert"}

\* the nearest ancestor of n that is not a BoolOp
TestSite(n) ==
    CHOOSE p \in 0..(n - 1) :
        /\ Kind(tree, p) # "BoolOp"
        /\ \A i \in (p + 1)..(n - 1) : Kind(tree, i) = "BoolOp"

\* n sits, through and/or only, in the test of an if / while / assert / ternary
InTruthinessPosition(n) ==
    /\ Kind(tree, TestSite(n)) \in ConditionKinds
    /\ tree[TestSite(n)].slot = "test"

Resolved == arg.kind = "Name" /\ ~arg.inf.err

\* own name plus ancestors of the inferred class
NameChain == {arg.inf.name} \cup SeqRange(arg.inf.ancestors)

Pep8Names == {"str", "tuple", "list", "set"}

AffectedType ==
    /\ Resolved
    /\ \/ "range" \in NameChain
       \/ NameChain \cap Pep8Names # {} /\ ~arg.inf.hasBool

\* C1: a visited len call in truthiness position whose argument infers to a
\* class with `range` in its name chain has exactly one message at the call
\* node, with or without __bool__.
C1_RangeAlwaysFlagged ==
    \A n \in 1..Len(tree) :
        (Visited(n) /\ IsLenCall(n) /\ InTruthinessPosition(n)
            /\ Resolved /\ "range" \in NameChain)
        => msgs[n] = 1

C1_Witness ==
    \E n \in 1..Len(tree) :
        /\ Visited(n) /\ IsLenCall(n) /\ InTruthinessPosition(n)
        /\ Resolved /\ arg.inf.name = "range" /\ arg.inf.hasBool
        /\ msgs[n] = 1

\* C2 as stated: with str, tuple, list or set in the name chain, a visited len
\* call in truthiness position has a message iff the class has no __bool__.
C2_Original ==
    \A n \in 1..Len(tree) :
        (Visited(n) /\ IsLenCall(n) /\ InTruthinessPosition(n)
            /\ Resolved /\ NameChain \cap Pep8Names # {})
        => (msgs[n] = 1 <=> ~arg.inf.hasBool)

\* C2 amended: the same, for name chains that do not also contain `range`:
\* exactly one message when the class has no __bool__, none when it has.
C2_Pep8IffNoBool ==
    \A n \in 1..Len(tree) :
        (Visited(n) /\ IsLenCall(n) /\ InTruthinessPosition(n)
            /\ Resolved /\ NameChain \cap Pep8Names # {} /\ "range" \notin NameChain)
        => msgs[n] = (IF arg.inf.hasBool THEN 0 ELSE 1)

C2_Witness ==
    \E n \in 1..Len(tree) :
        /\ Visited(n) /\ IsLenCall(n) /\ InTruthinessPosition(n)
        /\ Resolved /\ "list" \in SeqRange(arg.inf.ancestors) /\ "range" \notin NameChain
        /\ arg.inf.hasBool
        /\ msgs[n] = 0

\* C3: a visited `not` whose operand is a len call has exactly one message at
\* the negation node, wherever it sits and whatever inference would give; the
\* handler does not call infer.
C3_NotLenFlagged ==
    \A n \in 1..Len(tree) :
        (Visited(n) /\ IsNegation(n) /\ IsLenCall(Operand(n)))
        => msgs[n] = 1 /\ n \notin inferred

C3_Witness ==
    \E n \in 1..Len(tree) :
        /\ Visited(n) /\ IsNegation(n) /\ IsLenCall(Operand(n))
        /\ Kind(tree, Parent(n)) = "BoolOp"
        /\ ~InTruthinessPosition(n)
        /\ arg.inf.err
        /\ msgs[n] = 1

C5_IndeterminateSilent ==
    \A n \in 1..Len(tree) :
        (Visited(n) /\ IsLenCall(n) /\ InTruthinessPosition(n)
            /\ arg.kind = "Name" /\ arg.inf.err)
        => msgs[n] = 0 /\ fault = "none"

C5_Witness ==
    \E n \in 1..Len(tree) :
        /\ Visited(n) /\ IsLenCall(n) /\ InTruthinessPosition(n)
        /\ arg.kind = "Name" /\ arg.inf.err
        /\ n \in inferred
        /\ msgs[n] = 0

\* C6: a visited len call in truthiness position whose argument is a
\* comprehension or generator expression has one message at the call node and
\* infer was not called for it, whatever inference would have given.
C6_ComprehensionFlagged ==
    \A n \in 1..Len(tree) :
        (Visited(n) /\ IsLenCall(n) /\ InTruthinessPosition(n)
            /\ arg.kind \in generator_or_comprehension)
        => msgs[n] = 1 /\ n \notin inferred

C6_Witness ==
    \E n \in 1..Len(tree) :
        /\ Visited(n) /\ IsLenCall(n) /\ InTruthinessPosition(n)
        /\ arg.kind = "DictComp" /\ arg.inf.err
        /\ msgs[n] = 1

\* C7 as stated: a len call that is the operand of a `not` which itself sits
\* in truthiness position, with an argument of an affected type, gets both
\* messages: one at the negation and one at the call.
C7_Original ==
    \A n \in 2..Len(tree) :
        (Visited(n) /\ IsLenCall(n) /\ IsNegation(Parent(n))
            /\ InTruthinessPosition(Parent(n)) /\ AffectedType)
        => msgs[Parent(n)] = 1 /\ msgs[n] = 1

\* C7 amended: a len call that is the direct operand of a `not` is diagnosed
\* once: one message at the negation node and none at the call node.
C7_NegatedLenFlaggedOnce ==
    \A n \in 2..Len(tree) :
        (Visited(n) /\ IsLenCall(n) /\ IsNegation(Parent(n)))
        => msgs[Parent(n)] = 1 /\ msgs[n] = 0

C7_Witness ==
    \E n \in 2..Len(tree) :
        /\ Visited(n) /\ IsLenCall(n) /\ IsNegation(Parent(n))
        /\ InTruthinessPosition(Parent(n)) /\ AffectedType
        /\ msgs[Parent(n)] = 1 /\ msgs[n] = 0

Direct(n) == SubSeq(tree, 1, TestSite(n)) \o <<tree[n]>>

\* C9: a visited len call reached from a condition-bearing node through one or
\* more BoolOp levels has a message iff the same call placed directly in that
\* node's slot has one.
C9_BoolOpNestingInvariant ==
    \A n \in 1..Len(tree) :
        (Visited(n) /\ IsLenCall(n) /\ fault = "none"
            /\ Kind(tree, TestSite(n)) \in ConditionKinds
            /\ n - TestSite(n) >= 2)
        => msgs[n] = (IF Emits(call_outcome(Direct(n), arg, TestSite(n) + 1)) THEN 1 ELSE 0)

C9_Witness ==
    \E n \in 1..Len(tree) :
        /\ Visited(n) /\ IsLenCall(n)
        /\ Kind(tree, TestSite(n)) \in ConditionKinds
        /\ n - TestSite(n) >= 3
        /\ tree[Parent(n)].slot # tree[Parent(Parent(n))].slot
        /\ msgs[n] = 1

\* C10: a visited len call in truthiness position whose argument infers to a
\* class with none of range, str, tuple, list, set in its name chain has no
\* message, with or without __bool__.
C10_UnrelatedTypeSilent ==
    \A n \in 1..Len(tree) :
        (Visited(n) /\ IsLenCall(n) /\ InTruthinessPosition(n)
            /\ Resolved /\ NameChain \cap ({"range"} \cup Pep8Names) = {})
        => msgs[n] = 0

C10_Witness ==
    \E n \in 1..Len(tree) :
        /\ Visited(n) /\ IsLenCall(n) /\ InTruthinessPosition(n)
        /\ Resolved /\ NameChain \cap ({"range"} \cup Pep8Names) = {}
        /\ arg.inf.typeError /\ ~arg.inf.hasBool
        /\ msgs[n] = 0

====
